---- MODULE Spec2Model ----
(***************************************************************************)
(* Order relay handler of janata-book-backend (src/server.js):             *)
(* POST /api/create-order validates a checkout submission, maps it to the  *)
(* Shiprocket order payload, posts it once and translates the outcome.     *)
(***************************************************************************)
EXTENDS Integers, Sequences, FiniteSets, TLC

\* ------------------------------------------------------------------ bounds
NumReq == 2        \* requests that may be in flight together
MaxCartLen == 2    \* longest cart that is enumerated

Requests == 1..NumReq

\* ------------------------------------------------- JavaScript (JSON) values
\* A value is [t, s, n]: t the typeof tag, s the string content (or
\* "Infinity" for a non-finite number), n the numeric content.
Undef == [t |-> "undefined", s |-> "", n |-> 0]
Null == [t |-> "null", s |-> "", n |-> 0]
Str(x) == [t |-> "string", s |-> x, n |-> 0]
Num(k) == [t |-> "number", s |-> "", n |-> k]
Inf == [t |-> "number", s |-> "Infinity", n |-> 0]
Obj(k) == [t |-> "object", s |-> "", n |-> k]

\* ToBoolean: undefined, null, "", 0 are falsy; everything else met here is truthy.
Truthy(v) ==
    CASE v.t = "undefined" -> FALSE
      [] v.t = "null" -> FALSE
      [] v.t = "string" -> v.s # ""
      [] v.t = "number" -> (v.s = "Infinity" \/ v.n # 0)
      [] OTHER -> TRUE

\* Number.isFinite: a number (no coercion) that is neither NaN nor +-Infinity.
IsFinite(v) == v.t = "number" /\ v.s = ""

\* a || b
OrElse(a, b) == IF Truthy(a) THEN a ELSE b

\* `${v}` for the values an accepted item id can take.
Template(v) == IF v.t = "number" THEN ToString(v.n) ELSE v.s

\* ------------------------------------------------------------ cart, form
\* A cart element: JSON null, or an object with the four fields read.
Item(i, nm, p, q) == [t |-> "object", id |-> i, name |-> nm, price |-> p, quantity |-> q]
ItemNull == [t |-> "null", id |-> Undef, name |-> Undef, price |-> Undef, quantity |-> Undef]

\* cart: absent, a non-array value, or an array of elements.
CartUndef == [t |-> "undefined", items |-> <<>>]
CartString == [t |-> "string", items |-> <<>>]
CartArr(xs) == [t |-> "array", items |-> xs]

\* formData: absent, or an object (an absent field reads undefined).
Form(nm, em, ph, ad, pin, st, ci) ==
    [t |-> "object", name |-> nm, email |-> em, phone |-> ph, address |-> ad,
     pincode |-> pin, state |-> st, city |-> ci]
FormUndef ==
    [t |-> "undefined", name |-> Undef, email |-> Undef, phone |-> Undef,
     address |-> Undef, pincode |-> Undef, state |-> Undef, city |-> Undef]

\* ------------------------------------------------------------- validation
\* the first check without its last operand
MissingRequiredNoPayment(b) ==
    \/ ~Truthy(b.orderId)
    \/ b.cart.t = "undefined"
    \/ b.cart.t # "array"
    \/ Len(b.cart.items) = 0
    \/ b.formData.t = "undefined"

\* line 76: !orderId || !cart || !Array.isArray(cart) || cart.length === 0
\*          || !formData || !paymentId
MissingRequired(b) ==
    \/ ~Truthy(b.orderId)
    \/ b.cart.t = "undefined"
    \/ b.cart.t # "array"
    \/ Len(b.cart.items) = 0
    \/ b.formData.t = "undefined"
    \/ ~Truthy(b.paymentId)

\* line 87
IncompleteForm(f) ==
    \/ ~Truthy(f.name) \/ ~Truthy(f.email) \/ ~Truthy(f.phone)
    \/ ~Truthy(f.address) \/ ~Truthy(f.pincode) \/ ~Truthy(f.state)

\* the item predicate without the sign test on quantity
ItemInvalidNoSign(item) ==
    \/ ~Truthy(item.id)
    \/ ~Truthy(item.name)
    \/ ~IsFinite(item.price)
    \/ ~IsFinite(item.quantity)

\* line 92, the predicate given to cart.find, for an element that is an object
ItemInvalid(item) ==
    \/ ~Truthy(item.id)
    \/ ~Truthy(item.name)
    \/ ~IsFinite(item.price)
    \/ ~IsFinite(item.quantity)
    \/ item.quantity.n <= 0

\* line 92: cart.find scans left to right; reading .id of null throws a
\* TypeError, an element satisfying the predicate ends the scan.
RECURSIVE FindFrom(_, _)
FindFrom(items, i) ==
    IF i > Len(items) THEN "none"
    ELSE IF items[i].t = "null" THEN "throw"
    ELSE IF ItemInvalid(items[i]) THEN "found"
    ELSE FindFrom(items, i + 1)

CartFind(items) == FindFrom(items, 1)

\* line 98
BadTotal(total) == ~IsFinite(total) \/ total.n < 0

\* ---------------------------------------------------------------- mapping
GramsPerBook == 500    \* 0.5 (kg per book), kept in grams to stay in integers

\* lines 106-114: cart.map, one order item per cart item, in order
OrderItem(item) ==
    [name |-> item.name, sku |-> "SKU-" \o Template(item.id), units |-> item.quantity,
     selling_price |-> item.price, discount |-> 0, tax |-> 0, hsn |-> "4901"]

OrderItems(items) == [i \in 1..Len(items) |-> OrderItem(items[i])]

\* line 154: cart.reduce((sum, item) => sum + item.quantity, 0)
RECURSIVE SumQuantity(_, _, _)
SumQuantity(items, i, sum) ==
    IF i > Len(items) THEN sum
    ELSE SumQuantity(items, i + 1, sum + items[i].quantity.n)

\* half a kilogram per cart line instead of per unit
WeightPerLine(items) == GramsPerBook * Len(items)

Weight(items) == GramsPerBook * SumQuantity(items, 1, 0)

\* lines 118-155; date is new Date().toISOString().split('T')[0]
Payload(b, date) ==
    [order_id |-> b.orderId,
     order_date |-> date,
     pickup_location |-> "Primary",
     channel_id |-> "",
     comment |-> "Order from Janata Books Point",
     billing_customer_name |-> b.formData.name,
     billing_last_name |-> "",
     billing_address |-> b.formData.address,
     billing_city |-> OrElse(b.formData.city, Str("")),
     billing_pincode |-> b.formData.pincode,
     billing_state |-> b.formData.state,
     billing_country |-> "India",
     billing_email |-> b.formData.email,
     billing_phone |-> b.formData.phone,
     shipping_is_billing |-> TRUE,
     shipping_customer_name |-> b.formData.name,
     shipping_last_name |-> "",
     shipping_address |-> b.formData.address,
     shipping_city |-> OrElse(b.formData.city, Str("")),
     shipping_pincode |-> b.formData.pincode,
     shipping_country |-> "India",
     shipping_state |-> b.formData.state,
     shipping_email |-> b.formData.email,
     shipping_phone |-> b.formData.phone,
     order_items |-> OrderItems(b.cart.items),
     payment_method |-> "Prepaid",
     shipping_charges |-> OrElse(b.shippingCost, Num(0)),
     giftwrap_charges |-> 0,
     transaction_charges |-> 0,
     total_discount |-> OrElse(b.couponDiscount, Num(0)),
     sub_total |-> b.totalAmount,
     length |-> 30,
     breadth |-> 20,
     height |-> 5,
     weight |-> Weight(b.cart.items)]

\* lines 56-60, with the default of line 58
ShiprocketConfig ==
    [token |-> "your-default-shiprocket-token-here", apiUrl |-> "https://apiv2.shiprocket.in"]

\* lines 159-169: the arguments of axios.post
Post(payload, config) ==
    [url |-> config.apiUrl \o "/v1/external/orders/create/adhoc",
     data |-> payload,
     authorization |-> "Bearer " \o config.token,
     timeout |-> 10000]

\* --------------------------------------------------------------- responses
\* res.status(st).json({success, error, details, shiprocketOrderId, message});
\* a key the code does not set is undefined / "".
Response(st, ok, err, det, oid, msg) ==
    [status |-> st, success |-> ok, error |-> err, details |-> det,
     shiprocketOrderId |-> oid, message |-> msg]

\* lines 84, 89, 95, 100
BadRequest(reason) == Response(400, FALSE, reason, Undef, Undef, "")

\* lines 173-177 (res.json without status: 200)
Created(oid) ==
    Response(200, TRUE, "", Undef, oid, "Order created successfully in Shiprocket")

\* what a throw carries: error.message and, for an axios status error, error.response
TypeError(msg) == [message |-> msg, hasResponse |-> FALSE, status |-> 0, data |-> Undef]
AxiosError(rep) ==
    [message |-> rep.message, hasResponse |-> rep.hasResponse, status |-> rep.status,
     data |-> rep.data]

\* the catch block with the return of line 190 missing: the 401 answer falls
\* through to the general one
CatchFallsThrough(error) ==
    IF error.hasResponse /\ error.status = 401 THEN
        <<Response(401, FALSE, "Shiprocket authentication failed",
                   Str("Invalid or expired Shiprocket token"), Undef, ""),
          Response(500, FALSE, "Failed to create order in Shiprocket",
                   Str(error.message), Undef, "")>>
    ELSE IF error.hasResponse /\ error.status = 422 THEN
        <<Response(422, FALSE, "Invalid order data for Shiprocket", error.data, Undef, "")>>
    ELSE
        <<Response(500, FALSE, "Failed to create order in Shiprocket",
                   Str(error.message), Undef, "")>>

\* lines 178-210: the catch block, as the sequence of responses it sends
Catch(error) ==
    IF error.hasResponse /\ error.status = 401 THEN
        <<Response(401, FALSE, "Shiprocket authentication failed",
                   Str("Invalid or expired Shiprocket token"), Undef, "")>>
    ELSE IF error.hasResponse /\ error.status = 422 THEN
        <<Response(422, FALSE, "Invalid order data for Shiprocket", error.data, Undef, "")>>
    ELSE
        <<Response(500, FALSE, "Failed to create order in Shiprocket",
                   Str(error.message), Undef, "")>>

\* lines 214-221: the error middleware, reached when express.json() rejects the body
ErrorMiddleware(msg) ==
    <<Response(500, FALSE, "Internal server error", Str(msg), Undef, "")>>

\* ----------------------------------------------------------------- handler
\* lines 64-169: the synchronous part of the try block, up to the await.
\*   k = "res":   a validation check answered and returned
\*   k = "throw": an exception left the try block
\*   k = "call":  axios.post was issued with payload
Try(b, date) ==
    IF MissingRequired(b) THEN
        [k |-> "res", res |-> BadRequest("Missing required order data"),
         log |-> <<"Invalid order data received">>]
    ELSE IF IncompleteForm(b.formData) THEN
        [k |-> "res", res |-> BadRequest("Incomplete shipping details"),
         log |-> <<"Incomplete form data">>]
    ELSE IF CartFind(b.cart.items) = "throw" THEN
        [k |-> "throw",
         error |-> TypeError("Cannot read properties of null (reading 'id')"),
         log |-> <<>>]
    ELSE IF CartFind(b.cart.items) = "found" THEN
        [k |-> "res", res |-> BadRequest("Invalid cart item data"),
         log |-> <<"Invalid cart item detected">>]
    ELSE IF BadTotal(b.totalAmount) THEN
        [k |-> "res",
         res |-> BadRequest("Total amount must be a valid non-negative number"),
         log |-> <<"Invalid total amount">>]
    ELSE
        [k |-> "call", payload |-> Payload(b, date),
         log |-> (IF b.totalAmount.n = 0
                  THEN <<"Total amount is zero, proceeding with warning">>
                  ELSE <<>>) \o <<"Cart details", "Sending order to Shiprocket">>]

\* lines 171-210: what runs when the awaited axios.post settles.  A 2xx reply
\* resumes the try block, which reads response.data.order_id (a TypeError when
\* data is null or undefined); anything else rejects into the catch block.
Settle(rep) ==
    IF rep.ok THEN
        IF rep.data.t \in {"null", "undefined"} THEN
            [res |-> Catch(TypeError("Cannot read properties of null (reading 'order_id')")),
             log |-> <<"Error creating Shiprocket order">>]
        ELSE
            [res |-> <<Created(IF rep.data.t = "object" THEN Num(rep.data.n) ELSE Undef)>>,
             log |-> <<"Shiprocket order created successfully">>]
    ELSE
        [res |-> Catch(AxiosError(rep)), log |-> <<"Error creating Shiprocket order">>]

\* a handler that starts over after a failed call
AfterSettleRetry(rep) == IF rep.ok THEN "done" ELSE "handler"

\* where the handler stands once the settled call has been dealt with: both the
\* try block (line 177) and the catch block (lines 190, 197, 205) end the function
AfterSettle(rep) == "done"

\* ------------------------------------------------------------ environment
\* cart elements a client may send
ItemB1 == Item(Str("B1"), Str("Book"), Num(100), Num(2))
ItemB2 == Item(Str("B2"), Str("Atlas"), Num(250), Num(1))
ItemNoId == Item(Undef, Str("Book"), Num(100), Num(2))
ItemNoName == Item(Str("B3"), Str(""), Num(100), Num(2))
ItemInfPrice == Item(Str("B4"), Str("Book"), Inf, Num(2))
ItemStrQty == Item(Str("B5"), Str("Book"), Num(100), Str("2"))
ItemZeroQty == Item(Str("B6"), Str("Book"), Num(100), Num(0))

Items ==
    {ItemB1, ItemB2, ItemNull, ItemNoId, ItemNoName, ItemInfPrice, ItemStrQty, ItemZeroQty}

Carts ==
    {CartUndef, CartString}
        \cup {CartArr(xs) : xs \in UNION {[1..k -> Items] : k \in 0..MaxCartLen}}

FormA ==
    Form(Str("A"), Str("a@x.com"), Str("123"), Str("addr"), Str("110001"), Str("DL"), Undef)
FormB ==
    Form(Str("B"), Str("b@y.com"), Str("456"), Str("road"), Str("400001"), Str("MH"),
         Str("Mumbai"))
FormNoState ==
    Form(Str("A"), Str("a@x.com"), Str("123"), Str("addr"), Str("110001"), Undef, Undef)

Body(oid, c, f, total, ship, coupon, pay) ==
    [orderId |-> oid, cart |-> c, formData |-> f, totalAmount |-> total,
     shippingCost |-> ship, couponDiscount |-> coupon, paymentId |-> pay]

\* {}: what req.body holds before a submission is parsed into it
EmptyBody == Body(Undef, CartUndef, FormUndef, Undef, Undef, Undef, Undef)

\* every combination of present / absent / ill-formed fields
Bodies ==
    {Body(oid, c, f, total, ship, coupon, pay) :
        oid \in {Undef, Str("O1")},
        c \in Carts,
        f \in {FormUndef, FormA, FormNoState},
        total \in {Undef, Str("200"), Inf, Num(-1), Num(0), Num(200)},
        ship \in {Undef, Num(50)},
        coupon \in {Undef, Num(10)},
        pay \in {Undef, Str("P1")}}

\* a few submissions that differ in every mapped field, for requests in flight together
SmallBodies ==
    {Body(Str("O1"), CartArr(<<ItemB1>>), FormA, Num(200), Undef, Undef, Str("P1")),
     Body(Str("O2"), CartArr(<<ItemB2, ItemB1>>), FormB, Num(0), Num(50), Num(10), Str("P2")),
     Body(Str("O3"), CartArr(<<ItemB1, ItemNull>>), FormA, Num(200), Undef, Undef, Str("P3")),
     Body(Str("O4"), CartArr(<<ItemZeroQty>>), FormB, Num(100), Undef, Undef, Str("P4")),
     Body(Undef, CartArr(<<ItemB2>>), FormA, Num(250), Undef, Undef, Str("P5"))}

InputSet(tag) == IF tag = "all" THEN Bodies ELSE SmallBodies

\* the day new Date() reports when the payload is built
Dates == {"2025-07-14", "2025-07-15"}

\* how the provider call can settle: [ok] a 2xx response, [hasResponse] a status
\* outside 2xx (axios rejects with error.response), or no response at all
Reply(isOk, has, st, d, msg) ==
    [ok |-> isOk, hasResponse |-> has, status |-> st, data |-> d, message |-> msg]

Replies ==
    {Reply(TRUE, TRUE, 200, Obj(9001), ""),
     Reply(TRUE, TRUE, 200, Null, ""),
     Reply(FALSE, TRUE, 401, Str("Unauthenticated"), "Request failed with status code 401"),
     Reply(FALSE, TRUE, 422, Str("pincode invalid"), "Request failed with status code 422"),
     Reply(FALSE, TRUE, 503, Str("unavailable"), "Request failed with status code 503"),
     Reply(FALSE, FALSE, 0, Undef, "timeout of 10000ms exceeded")}

\* ------------------------------------------------------------------- state
VARIABLES
    shiprocketConfig,   \* the module-level provider configuration
    clients,    \* the requests that will arrive (fixed by the workload)
    inputs,     \* which submissions the clients send: "all" or "few"
    pc,         \* per request: "idle", "handler", "await", "done"
    body,       \* per request: req.body
    out,        \* per request: the calls posted to the provider, in order
    reply,      \* per request: how its provider calls settled, in order
    res,        \* per request: the responses sent, in order
    log         \* per request: the log lines written, in order

vars == <<shiprocketConfig, clients, inputs, pc, body, out, reply, res, log>>

Start(cs, tag) ==
    /\ shiprocketConfig = ShiprocketConfig
    /\ clients = cs
    /\ inputs = tag
    /\ pc = [r \in Requests |-> "idle"]
    /\ body = [r \in Requests |-> EmptyBody]
    /\ out = [r \in Requests |-> <<>>]
    /\ reply = [r \in Requests |-> <<>>]
    /\ res = [r \in Requests |-> <<>>]
    /\ log = [r \in Requests |-> <<>>]

\* one client, every submission
Init == Start({1}, "all")

\* NumReq clients at once, a few submissions
InitConc == Start(Requests, "few")

\* line 32: express.json() parsed the body; the route handler is entered
Receive(r) ==
    /\ r \in clients
    /\ pc[r] = "idle"
    /\ \E b \in InputSet(inputs) :
        body' = [body EXCEPT ![r] = b]
    /\ pc' = [pc EXCEPT ![r] = "handler"]
    /\ UNCHANGED <<shiprocketConfig, clients, inputs, out, reply, res, log>>

\* line 32, lines 214-221: express.json() cannot parse the body and passes its
\* error on; the route is skipped and the error middleware answers
ParseError(r) ==
    /\ r \in clients
    /\ pc[r] = "idle"
    /\ res' = [res EXCEPT ![r] = @ \o ErrorMiddleware("Unexpected token in JSON")]
    /\ log' = [log EXCEPT ![r] = Append(@, "Server error")]
    /\ pc' = [pc EXCEPT ![r] = "done"]
    /\ UNCHANGED <<shiprocketConfig, clients, inputs, body, out, reply>>

\* a body kept in one module-level slot, the first request's
ReqBodyShared(r) == body[1]

\* line 74: req.body, the request's own parsed body
ReqBody(r) == body[r]

\* lines 63-169 (and 178-210 when the try block throws before the await)
Handle(r) ==
    /\ pc[r] = "handler"
    /\ \E date \in Dates :
        LET t == Try(ReqBody(r), date) IN
        CASE t.k = "res" ->
                /\ res' = [res EXCEPT ![r] = Append(@, t.res)]
                /\ log' = [log EXCEPT ![r] = @ \o t.log]
                /\ pc' = [pc EXCEPT ![r] = "done"]
                /\ UNCHANGED out
          [] t.k = "throw" ->
                /\ res' = [res EXCEPT ![r] = @ \o Catch(t.error)]
                /\ log' = [log EXCEPT ![r] = @ \o t.log \o <<"Error creating Shiprocket order">>]
                /\ pc' = [pc EXCEPT ![r] = "done"]
                /\ UNCHANGED out
          [] t.k = "call" ->
                /\ out' = [out EXCEPT ![r] = Append(@, Post(t.payload, shiprocketConfig))]
                /\ log' = [log EXCEPT ![r] = @ \o t.log]
                /\ pc' = [pc EXCEPT ![r] = "await"]
                /\ UNCHANGED res
    /\ UNCHANGED <<shiprocketConfig, clients, inputs, body, reply>>

\* lines 159-210: the awaited axios.post settles and the handler finishes
ProviderReply(r) ==
    /\ pc[r] = "await"
    /\ \E rep \in Replies :
        /\ reply' = [reply EXCEPT ![r] = Append(@, rep)]
        /\ res' = [res EXCEPT ![r] = @ \o Settle(rep).res]
        /\ log' = [log EXCEPT ![r] = @ \o Settle(rep).log]
        /\ pc' = [pc EXCEPT ![r] = AfterSettle(rep)]
    /\ UNCHANGED <<shiprocketConfig, clients, inputs, body, out>>

Next ==
    \E r \in Requests :
        \/ Receive(r)
        \/ ParseError(r)
        \/ Handle(r)
        \/ ProviderReply(r)

Spec == Init /\ [][Next]_vars

SpecConc == InitConc /\ [][Next]_vars

\* the synchronous handler code runs once entered, and axios.post settles
\* (response, error or the 10 s timeout of line 167)
SpecFair ==
    /\ InitConc
    /\ [][Next]_vars
    /\ \A r \in Requests : WF_vars(Handle(r)) /\ WF_vars(ProviderReply(r))

\* ================================================================== claims
\* the request went through express.json() into the route handler
Entered(r) == pc[r] # "idle" /\ (log[r] = <<>> \/ Head(log[r]) # "Server error")

\* the handler has run its synchronous part for the request
Validated(r) == Entered(r) /\ pc[r] \in {"await", "done"}

Rejection(reason) ==
    <<[status |-> 400, success |-> FALSE, error |-> reason, details |-> Undef,
       shiprocketOrderId |-> Undef, message |-> ""]>>

\* the four checks, as the specification words them
LacksRequired(b) ==
    \/ b.orderId = Undef
    \/ b.cart.t # "array"
    \/ b.cart.items = <<>>
    \/ b.formData.t = "undefined"
    \/ b.paymentId = Undef

NonEmpty(v) == v.t = "string" /\ v.s # ""

LacksShipping(b) ==
    \E f \in {"name", "email", "phone", "address", "pincode", "state"} :
        ~NonEmpty(b.formData[f])

FiniteNumber(v) == v.t = "number" /\ v.s # "Infinity"

GoodItem(x) ==
    /\ x.t = "object"
    /\ NonEmpty(x.id) /\ NonEmpty(x.name)
    /\ FiniteNumber(x.price)
    /\ FiniteNumber(x.quantity) /\ x.quantity.n > 0

HasBadItem(b) == \E i \in 1..Len(b.cart.items) : ~GoodItem(b.cart.items[i])

WrongTotal(b) == ~(FiniteNumber(b.totalAmount) /\ b.totalAmount.n >= 0)

ValidSubmission(b) ==
    ~LacksRequired(b) /\ ~LacksShipping(b) /\ ~HasBadItem(b) /\ ~WrongTotal(b)

\* C1: a submission lacking orderId, a non-empty array cart, formData or
\* paymentId is answered 400 'Missing required order data' and nothing is
\* posted to the provider, whatever its other fields hold.
C1_MissingRequiredRejected ==
    \A r \in Requests :
        (Validated(r) /\ LacksRequired(body[r])) =>
            /\ res[r] = Rejection("Missing required order data")
            /\ out[r] = <<>>
            /\ pc[r] = "done"

\* a submission lacking only paymentId, everything else valid, has been rejected
C1_Witness ==
    \E r \in Requests :
        /\ Validated(r)
        /\ body[r].paymentId = Undef
        /\ ValidSubmission([body[r] EXCEPT !.paymentId = Str("P1")])
        /\ res[r] = Rejection("Missing required order data")

\* C2: every client input error (an unparsable body, or a submission invalid
\* under the validation rules, cart elements that are not objects included)
\* is answered with status 400 and never posted to the provider.
C2_ClientErrorsAnswered400 ==
    \A r \in Requests :
        (pc[r] \in {"await", "done"} /\ (~Entered(r) \/ ~ValidSubmission(body[r]))) =>
            /\ out[r] = <<>>
            /\ Len(res[r]) = 1
            /\ res[r][1].status = 400

\* C3: the four checks apply in order and the lowest-numbered failing check
\* alone names the rejection reason; only a submission passing all four
\* reaches the payload mapping.
C3_FirstFailingCheckDecides ==
    \A r \in Requests :
        Validated(r) =>
            LET b == body[r] IN
            IF LacksRequired(b) THEN
                res[r] = Rejection("Missing required order data") /\ out[r] = <<>>
            ELSE IF LacksShipping(b) THEN
                res[r] = Rejection("Incomplete shipping details") /\ out[r] = <<>>
            ELSE IF HasBadItem(b) THEN
                res[r] = Rejection("Invalid cart item data") /\ out[r] = <<>>
            ELSE IF WrongTotal(b) THEN
                /\ res[r] = Rejection("Total amount must be a valid non-negative number")
                /\ out[r] = <<>>
            ELSE Len(out[r]) = 1

\* C4: for a validated submission the provider's outcome decides the answer:
\* 2xx gives 200 with the provider's order_id, 401 the fixed 401 body, 422 a
\* 422 echoing the provider's data, anything else 500 with the error message.
C4_OutcomeDecidesResponse ==
    \A r \in Requests :
        (pc[r] = "done" /\ Len(reply[r]) = 1) =>
            LET rep == reply[r][1] IN
            IF rep.ok THEN
                res[r] = <<[status |-> 200, success |-> TRUE, error |-> "",
                            details |-> Undef,
                            shiprocketOrderId |->
                                IF rep.data.t = "object" THEN Num(rep.data.n) ELSE Undef,
                            message |-> "Order created successfully in Shiprocket"]>>
            ELSE IF rep.hasResponse /\ rep.status = 401 THEN
                res[r] = <<[status |-> 401, success |-> FALSE,
                            error |-> "Shiprocket authentication failed",
                            details |-> Str("Invalid or expired Shiprocket token"),
                            shiprocketOrderId |-> Undef, message |-> ""]>>
            ELSE IF rep.hasResponse /\ rep.status = 422 THEN
                res[r] = <<[status |-> 422, success |-> FALSE,
                            error |-> "Invalid order data for Shiprocket",
                            details |-> rep.data,
                            shiprocketOrderId |-> Undef, message |-> ""]>>
            ELSE
                res[r] = <<[status |-> 500, success |-> FALSE,
                            error |-> "Failed to create order in Shiprocket",
                            details |-> Str(rep.message),
                            shiprocketOrderId |-> Undef, message |-> ""]>>

\* C5: a request posts to the provider at most once; once that call has
\* settled, however it settled, the request is answered and nothing more is
\* posted.
C5_SingleAttempt ==
    \A r \in Requests :
        /\ Len(out[r]) <= 1
        /\ Len(reply[r]) <= Len(out[r])
        /\ Len(reply[r]) = 1 => (pc[r] = "done" /\ Len(res[r]) = 1)

\* a request whose only call failed has been answered
C5_Witness ==
    \E r \in Requests :
        /\ pc[r] = "done"
        /\ Len(out[r]) = 1
        /\ Len(reply[r]) = 1
        /\ ~reply[r][1].ok
        /\ Len(res[r]) = 1

\* C6: with everything else valid, a negative, non-finite or non-numeric
\* totalAmount is answered 400 without a provider call; totalAmount 0 logs a
\* warning, is posted with sub_total 0, and is answered 200 when the provider
\* succeeds.
C6_TotalBoundaryAtZero ==
    \A r \in Requests :
        LET b == body[r] IN
        (Validated(r) /\ ValidSubmission([b EXCEPT !.totalAmount = Num(1)])) =>
            IF WrongTotal(b) THEN
                /\ Len(res[r]) = 1 /\ res[r][1].status = 400
                /\ out[r] = <<>>
            ELSE
                /\ Len(out[r]) = 1
                /\ out[r][1].data.sub_total = b.totalAmount
                /\ b.totalAmount = Num(0) =>
                    /\ \E i \in 1..Len(log[r]) :
                          log[r][i] = "Total amount is zero, proceeding with warning"
                    /\ (pc[r] = "done" /\ reply[r][1].ok) =>
                          (Len(res[r]) = 1 /\ res[r][1].status = 200)

\* the sum of the quantities, taken from the last item backwards
RECURSIVE TotalQuantity(_)
TotalQuantity(items) ==
    IF items = <<>> THEN 0
    ELSE items[Len(items)].quantity.n + TotalQuantity(SubSeq(items, 1, Len(items) - 1))

\* C7: the posted payload is a function of the submission: order_items follows
\* the cart in length and order with sku 'SKU-'+id, units = quantity and
\* selling_price = price; weight is 0.5 kg (500 g) times the sum of the
\* quantities; sub_total is totalAmount; shipping_charges and total_discount
\* are shippingCost and couponDiscount, or 0 when those are absent.
C7_PayloadMapping ==
    \A r \in Requests :
        \A k \in 1..Len(out[r]) :
            LET p == out[r][k].data
                b == body[r]
                c == b.cart.items
            IN  /\ Len(p.order_items) = Len(c)
                /\ \A i \in 1..Len(c) :
                    /\ p.order_items[i].sku = "SKU-" \o c[i].id.s
                    /\ p.order_items[i].units = c[i].quantity
                    /\ p.order_items[i].selling_price = c[i].price
                /\ 2 * p.weight = 1000 * TotalQuantity(c)
                /\ p.sub_total = b.totalAmount
                /\ p.shipping_charges =
                      (IF b.shippingCost = Undef THEN Num(0) ELSE b.shippingCost)
                /\ p.total_discount =
                      (IF b.couponDiscount = Undef THEN Num(0) ELSE b.couponDiscount)
                /\ (c = <<ItemB1>> /\ b.totalAmount = Num(200)) =>
                    /\ p.sub_total = Num(200)
                    /\ p.weight = 1000
                    /\ p.order_items =
                          <<[name |-> Str("Book"), sku |-> "SKU-B1", units |-> Num(2),
                             selling_price |-> Num(100), discount |-> 0, tax |-> 0,
                             hsn |-> "4901"]>>

\* a two-item cart with different items, shipping cost present and coupon
\* absent, has been posted
C7_Witness ==
    \E r \in Requests :
        /\ Len(out[r]) = 1
        /\ Len(body[r].cart.items) = 2
        /\ body[r].cart.items[1] # body[r].cart.items[2]
        /\ body[r].shippingCost # Undef
        /\ body[r].couponDiscount = Undef
        /\ out[r][1].data.total_discount = Num(0)

\* what a request gets when it is the only one the server handles: the
\* responses the handler sends for body b when its provider call (if any)
\* settles as reps says
Alone(b, reps) ==
    LET t == Try(b, "2025-07-14") IN
    CASE t.k = "res" -> <<t.res>>
      [] t.k = "throw" -> Catch(t.error)
      [] t.k = "call" -> IF reps = <<>> THEN <<>> ELSE Settle(reps[1]).res

\* the payload minus the clock reading
OwnPayload(b) == [Payload(b, "2025-07-14") EXCEPT !.order_date = ""]

\* C8: requests in flight together are independent: a request's payload is
\* built from its own body only (and the configuration, which no request
\* writes), its response is what it would get alone
\* from its own body and its own provider reply, and a step of one request
\* changes nothing of another.
C8_RequestsIndependent ==
    /\ [](\A r \in Requests :
            /\ Validated(r) => res[r] = Alone(body[r], reply[r])
            /\ \A k \in 1..Len(out[r]) :
                  /\ [out[r][k].data EXCEPT !.order_date = ""] = OwnPayload(body[r])
                  /\ out[r][k].data.order_id = body[r].orderId
                  /\ out[r][k].data.billing_customer_name = body[r].formData.name
                  /\ out[r][k].data.sub_total = body[r].totalAmount
                  /\ out[r][k].authorization = "Bearer " \o shiprocketConfig.token)
    /\ [][shiprocketConfig' = shiprocketConfig]_vars
    /\ [][\A r \in Requests :
            pc'[r] # pc[r] =>
                \A s \in Requests \ {r} :
                    /\ pc'[s] = pc[s] /\ body'[s] = body[s] /\ out'[s] = out[s]
                    /\ reply'[s] = reply[s] /\ res'[s] = res[s] /\ log'[s] = log[s]]_vars

\* two requests with different bodies have their provider calls in flight at
\* the same time, each call carrying its own order
C8_Witness ==
    \E r, s \in Requests :
        /\ r # s
        /\ pc[r] = "await" /\ pc[s] = "await"
        /\ body[r].orderId # body[s].orderId
        /\ out[r][1].data.order_id = body[r].orderId
        /\ out[s][1].data.order_id = body[s].orderId
        /\ out[r][1].data.order_items # out[s][1].data.order_items

\* C9: a request that enters the handler is answered exactly once on every
\* path, never twice, and, the handler running and the provider call
\* settling, it is eventually answered.
C9_ExactlyOneResponse ==
    /\ [](\A r \in Requests :
            /\ Len(res[r]) <= 1
            /\ pc[r] = "done" => Len(res[r]) = 1
            /\ pc[r] \in {"idle", "handler", "await"} => res[r] = <<>>)
    /\ \A r \in Requests : (pc[r] = "handler") ~> (pc[r] = "done" /\ Len(res[r]) = 1)

\* requests answered after an exception before the call, after an exception
\* after the call, and after a provider 401
C9_Witness ==
    /\ \E r \in Requests :
        pc[r] = "done" /\ out[r] = <<>> /\ Len(res[r]) = 1 /\ res[r][1].status = 500
            /\ Entered(r)
    /\ \E r \in Requests :
        pc[r] = "done" /\ Len(reply[r]) = 1 /\ Len(res[r]) = 1
            /\ ((reply[r][1].ok /\ res[r][1].status = 500) \/ reply[r][1].status = 401)

====
